---- MODULE Spec2Model ----
(***************************************************************************)
(* Character sheet of the D&D desktop application: the in-memory           *)
(* character held by CharacterSheet.tsx, the handlers that mutate it, and  *)
(* the save_character requests those handlers issue to the record store;   *)
(* the character builder of CharactersPage.tsx that creates the record;    *)
(* and the derived statistics, the compendium cache, the notes page and    *)
(* the dice roller, each a page of its own.                                *)
(***************************************************************************)
EXTENDS Integers, Sequences, FiniteSets, TLC

VARIABLES
    character,          \* useState<Character>: the snapshot the sheet renders
    showLevelUpModal,   \* useState(false)
    levelUpHPChoice,    \* useState<'roll' | 'average'>('average')
    levelUpHPRoll,      \* useState<number | null>(null)
    pendingRest,        \* useState<'long' | 'short' | null>(null)
    lastSaved,          \* useState<Date | null>: Null, or "Date" once a load or save set it
    inflight,           \* save_character requests sent and not yet answered
    stored,             \* the record the store holds for this character id
    storeLatency,       \* "prompt": a request is answered before the next UI event
    lastOp,             \* the mutation that acted last ("ui" after a dialog-only handler)
    before,             \* the snapshot that mutation was applied to
    lastSaveFailed,     \* the most recently answered save request was rejected
    form,               \* state of CharacterCreationForm, "closed" while a sheet is shown
    derived,            \* a call of a function of types/character.ts and its result
    srdApi,             \* utils/srdApi.ts: the cache Map and the fetches in flight
    notesPage,          \* state, timers and localStorage entry of NotesPage
    diceRoller          \* state and timers of DiceRoller

vars == << character, showLevelUpModal, levelUpHPChoice, levelUpHPRoll,
           pendingRest, lastSaved, inflight, stored, storeLatency,
           lastOp, before, lastSaveFailed, form,
           derived, srdApi, notesPage, diceRoller >>

uiVars == << showLevelUpModal, levelUpHPChoice, levelUpHPRoll, pendingRest >>

(* The pages that are not mounted while the sheet or the builder is shown *)
pageVars == << derived, srdApi, notesPage, diceRoller >>

----------------------------------------------------------------------------
(* Bounds of the model *)

MaxLevel == 2
MaxRestLevel == 4
MaxInFlight == 2

(* Values typed into the three HP inputs, and the builds the sheet is opened on *)
HpInputs == {-5, 15, 999}
MaxHpInputs == {-5, 10, 20}
TempHpInputs == {-5, 4}
BuiltClasses == {"Bard", "Fighter"}
BuiltConstitutions == {1, 14}

----------------------------------------------------------------------------
(* Values of the program *)

Undefined == -1
LevelCap == 20

Min(a, b) == IF a < b THEN a ELSE b
Max(a, b) == IF a > b THEN a ELSE b

(* a ?? b *)
Coalesce(a, b) == IF a = Undefined THEN b ELSE a

(* Mutant: the half is rounded toward zero *)
getAbilityModifier_Truncate(score) ==
    IF score >= 10 THEN (score - 10) \div 2 ELSE -((10 - score) \div 2)

(* Math.floor((score - 10) / 2) *)
getAbilityModifier(score) == (score - 10) \div 2

(* Mutant: the bonus steps at the multiples of four *)
getProficiencyBonus_StepAtFour(level) == (level \div 4) + 2

(* Math.floor((level - 1) / 4) + 2 *)
getProficiencyBonus(level) == ((level - 1) \div 4) + 2

classHitDie(cls) ==
    CASE cls = "Bard" -> 8
      [] cls = "Barbarian" -> 12
      [] cls \in {"Fighter", "Paladin", "Ranger"} -> 10
      [] cls \in {"Cleric", "Druid", "Monk", "Rogue", "Warlock"} -> 8
      [] cls \in {"Sorcerer", "Wizard"} -> 6
      [] OTHER -> 8

(* The record handleSubmit assembles for a Half-Orc Criminal of the given    *)
(* class and final constitution, with the default equipment choices; the     *)
(* fields the sheet handlers below never read are left out                  *)
newCharacter(cls, con) ==
    [ id |-> "uuid-1",
      race |-> "Half-Orc",
      class |-> cls,
      constitution |-> con,
      level |-> 1,
      hit_points |-> 8 + ((con - 10) \div 2),
      max_hit_points |-> 8 + ((con - 10) \div 2),
      temp_hp |-> Undefined,
      hit_dice_remaining |-> Undefined,
      used_abilities |-> << >>,
      spell_slots |-> IF cls = "Bard" THEN << 2 >> ELSE << >>,
      spell_slots_used |-> IF cls = "Bard" THEN [k \in {1} |-> << "false", "false" >>]
                                          ELSE << >>,
      death_saves_success |-> << FALSE, FALSE, FALSE >>,
      death_saves_failure |-> << FALSE, FALSE, FALSE >>,
      equipment |-> (IF cls = "Bard"
                     THEN << "Rapier", "Diplomat's pack", "Lute", "Leather armor", "Dagger" >>
                     ELSE << >>)
                    \o << "Crowbar", "Dark common clothes (hood)", "Thieves' tools" >>,
      currency |-> [platinum |-> Undefined, gold |-> 15,
                    silver |-> Undefined, copper |-> Undefined],
      heroic_inspiration |-> "undefined",
      notes |-> "Half-Orc: ... Criminal (Spy): ..." ]

maxHit(c) == c.max_hit_points

----------------------------------------------------------------------------
(* The mutations, as functions from the rendered snapshot to the updated one. *)
(* The number inputs deliver integers here, so the Number.isFinite fallbacks  *)
(* of the three HP handlers are not taken.                                    *)

(* Current HP input onChange: Math.max(0, Math.min(raw, maxHit)) *)
setHitPoints(c, raw) ==
    [c EXCEPT !.hit_points = Max(0, Min(raw, maxHit(c)))]

(* Mutant: the new maximum is stored without clamping current HP down *)
setMaxHitPoints_NoClamp(c, raw) ==
    [c EXCEPT !.max_hit_points = Max(1, raw)]

(* Max HP input onChange: Math.max(1, raw), then clamp current HP down *)
setMaxHitPoints(c, raw) ==
    LET v == Max(1, raw)
        updated == [c EXCEPT !.max_hit_points = v]
    IN  IF updated.hit_points > v THEN [updated EXCEPT !.hit_points = v]
                                  ELSE updated

(* Temporary HP input onChange: Math.max(0, raw) *)
setTempHp(c, raw) ==
    [c EXCEPT !.temp_hp = Max(0, raw)]

(* hpIncrease of Confirm Level Up; roll is the pre-rolled d8 (levelUpHPRoll) *)
hpIncrease(c, choice, roll) ==
    IF c.class = "Bard"
    THEN IF choice = "average" THEN 5 + getAbilityModifier(c.constitution)
                               ELSE roll + getAbilityModifier(c.constitution)
    ELSE 0

(* Confirm Level Up onClick: the updated record *)
levelUp(c, choice, roll) ==
    LET inc == hpIncrease(c, choice, roll)
        raised == [c EXCEPT !.level = c.level + 1]
    IN  IF c.class = "Bard"
        THEN [raised EXCEPT
                !.hit_points = c.hit_points + inc,
                \* (character.max_hit_points || character.hit_points) + hpIncrease
                !.max_hit_points = (IF c.max_hit_points = 0 THEN c.hit_points
                                    ELSE c.max_hit_points) + inc]
        ELSE raised

(* Mutant: a long rest gives back one hit die whatever the level *)
applyLongRest_FlatRegain(c) ==
    LET level == IF c.level = 0 THEN 1 ELSE c.level
        currentRemaining == Coalesce(c.hit_dice_remaining, level)
    IN  [c EXCEPT !.used_abilities = << >>,
                  !.spell_slots_used = << >>,
                  !.hit_points = c.max_hit_points,
                  !.hit_dice_remaining = Min(level, currentRemaining + 1)]

(* Mutant: the regained hit dice are not capped at the level *)
applyLongRest_Uncapped(c) ==
    LET level == IF c.level = 0 THEN 1 ELSE c.level
        currentRemaining == Coalesce(c.hit_dice_remaining, level)
        regain == Max(1, level \div 2)
    IN  [c EXCEPT !.used_abilities = << >>,
                  !.spell_slots_used = << >>,
                  !.hit_points = c.max_hit_points,
                  !.hit_dice_remaining = currentRemaining + regain]

(* Mutant: a long rest also puts the character back to level 1 *)
applyLongRest_ResetLevel(c) ==
    [c EXCEPT !.used_abilities = << >>,
              !.spell_slots_used = << >>,
              !.hit_points = c.max_hit_points,
              !.hit_dice_remaining = 1,
              !.level = 1]

(* Long Rest onConfirm: the updated record *)
applyLongRest(c) ==
    LET level == IF c.level = 0 THEN 1 ELSE c.level
        currentRemaining == Coalesce(c.hit_dice_remaining, level)
        regain == Max(1, level \div 2)
        newRemaining == Min(level, currentRemaining + regain)
    IN  [c EXCEPT !.used_abilities = << >>,
                  !.spell_slots_used = << >>,
                  !.hit_points = c.max_hit_points,
                  !.hit_dice_remaining = newRemaining]

(* hit dice the short-rest dialog reads as available *)
available(c) ==
    Coalesce(c.hit_dice_remaining, IF c.level = 0 THEN 1 ELSE c.level)

(* Spend 1 Hit Die onClick, past the available <= 0 return *)
spendHitDie(c, roll) ==
    LET conMod == getAbilityModifier(c.constitution)
        totalHeal == Max(0, roll + conMod)
        maxHp == c.max_hit_points
        newHp == Min(maxHp, (IF c.hit_points = 0 THEN 0 ELSE c.hit_points) + totalHeal)
        newAvailable == Max(0, available(c) - 1)
    IN  [c EXCEPT !.hit_points = newHp, !.hit_dice_remaining = newAvailable]

(* Mutant: the toggled copy is given a fresh id *)
toggleUsedAbility_NewId(c, abilityId) ==
    [c EXCEPT !.id = "uuid-2",
              !.used_abilities = Append(c.used_abilities, abilityId)]

(* toggleUsedAbility: membership toggle on the used_abilities list *)
toggleUsedAbility(c, abilityId) ==
    LET usedAbilities == c.used_abilities
        isUsed == \E i \in 1 .. Len(usedAbilities) : usedAbilities[i] = abilityId
    IN  [c EXCEPT !.used_abilities =
            IF isUsed THEN SelectSeq(usedAbilities, LAMBDA x : x # abilityId)
                      ELSE Append(usedAbilities, abilityId)]

(* maxSlots of toggleSpellSlot and of the slot buttons *)
maxSlots(c, level) ==
    IF level <= Len(c.spell_slots)
    THEN c.spell_slots[level]
    ELSE IF level = 1 /\ c.class = "Bard" /\ c.level >= 1 THEN 2 ELSE 0

(* !arr[slotIndex]: an element never written reads undefined *)
Negate(x) == IF x = "true" THEN "false" ELSE "true"

(* while (arr.length < maxSlots) arr.push(false) *)
RECURSIVE PadFalse(_, _)
PadFalse(arr, n) == IF Len(arr) < n THEN PadFalse(Append(arr, "false"), n) ELSE arr

(* arr[slotIndex] = !arr[slotIndex] on a JavaScript array: an index past   *)
(* the end grows the array, leaving "empty" holes before it; a negative    *)
(* index sets a property that is no element and is lost on the next copy   *)
FlipAt(arr, slotIndex) ==
    IF slotIndex < 0 THEN arr
    ELSE IF slotIndex < Len(arr)
         THEN [arr EXCEPT ![slotIndex + 1] = Negate(@)]
         ELSE [i \in 1 .. slotIndex + 1 |->
                 IF i <= Len(arr) THEN arr[i]
                 ELSE IF i = slotIndex + 1 THEN "true" ELSE "empty"]

(* Mutant: a level without an entry starts from an empty array and no     *)
(* padding is done                                                         *)
toggleSpellSlot_NoPad(c, level, slotIndex) ==
    LET key == level
        existing == c.spell_slots_used
        arr == IF key \in DOMAIN existing THEN existing[key] ELSE << >>
        flipped == FlipAt(arr, slotIndex)
    IN  [c EXCEPT !.spell_slots_used =
            [k \in (DOMAIN existing) \cup {key} |->
                IF k = key THEN flipped ELSE existing[k]]]

(* toggleSpellSlot: the updated record *)
toggleSpellSlot(c, level, slotIndex) ==
    LET key == level
        existing == c.spell_slots_used
        n == maxSlots(c, level)
        arr == IF key \in DOMAIN existing THEN existing[key]
                                          ELSE [i \in 1 .. n |-> "false"]
        flipped == FlipAt(PadFalse(arr, n), slotIndex)
    IN  [c EXCEPT !.spell_slots_used =
            [k \in (DOMAIN existing) \cup {key} |->
                IF k = key THEN flipped ELSE existing[k]]]

(* Mutant: the click flips the same index of both death-save rows *)
toggleDeathSave_BothRows(c, kind, i) ==
    [c EXCEPT !.death_saves_success[i + 1] = ~@,
              !.death_saves_failure[i + 1] = ~@]

(* Death save button onClick: arr[i] = !arr[i] on a copy of the row; the    *)
(* buttons are mapped over the row, so i is an index of it                  *)
toggleDeathSave(c, kind, i) ==
    IF kind = "success"
    THEN [c EXCEPT !.death_saves_success[i + 1] = ~@]
    ELSE [c EXCEPT !.death_saves_failure[i + 1] = ~@]

(* Heroic Inspiration button onClick: !(heroic_inspiration ?? false) *)
toggleInspiration(c) ==
    [c EXCEPT !.heroic_inspiration = Negate(@)]

(* parseInt(e.target.value) || 0 on the text of a number input: text that   *)
(* is no number parses to NaN, and NaN || 0 is 0                            *)
parseIntOrZero(text) == IF text.numeric THEN text.value ELSE 0

(* Mutant: the typed amount is stored without the floor at 0 *)
updateCurrency_NoFloor(c, field, text) ==
    LET val == parseIntOrZero(text)
        old == [f \in {"platinum", "gold", "silver", "copper"} |->
                   Coalesce(c.currency[f], 0)]
    IN  [c EXCEPT !.currency = [old EXCEPT ![field] = val]]

(* Currency input onChange: the field takes Math.max(0, parsed), the other  *)
(* three are rewritten as currency?.x ?? 0                                  *)
updateCurrency(c, field, text) ==
    LET val == Max(0, parseIntOrZero(text))
        old == [f \in {"platinum", "gold", "silver", "copper"} |->
                   Coalesce(c.currency[f], 0)]
    IN  [c EXCEPT !.currency = [old EXCEPT ![field] = val]]

(* Add Item confirm: equipment: [...character.equipment, item] *)
addItem(c, name) == [c EXCEPT !.equipment = Append(@, name)]

(* confirmRemoveItem: character.equipment.filter((_, i) => i !== index) *)
removeItem(c, index) ==
    LET eq == c.equipment
    IN  IF index \in 0 .. Len(eq) - 1
        THEN [c EXCEPT !.equipment =
                 [j \in 1 .. Len(eq) - 1 |-> IF j <= index THEN eq[j] ELSE eq[j + 1]]]
        ELSE c

----------------------------------------------------------------------------
(* Persistence *)

(* saveCharacter: invoke('save_character', ...).  A prompt store answers     *)
(* before the next UI event, which is the schedule Spec and SpecRest follow *)
(* (no handler reads stored or inflight, so the snapshots they reach are    *)
(* those of every schedule); otherwise the request stays in flight.         *)
saveCharacter(updated) ==
    IF storeLatency = "prompt"
    THEN /\ stored' = updated
         /\ lastSaved' = "Date"
         /\ lastSaveFailed' = FALSE
         /\ UNCHANGED inflight
    ELSE /\ Len(inflight) < MaxInFlight
         /\ inflight' = Append(inflight, updated)
         /\ UNCHANGED << stored, lastSaved, lastSaveFailed >>

(* setCharacter(updated); await saveCharacter(updated) *)
Commit(updated, op) ==
    /\ character' = updated
    /\ saveCharacter(updated)
    /\ lastOp' = op
    /\ before' = character
    /\ UNCHANGED << storeLatency, form, pageVars >>

(* No modal overlay covers the sheet *)
NoOverlay == ~showLevelUpModal /\ pendingRest = "null"

----------------------------------------------------------------------------
(* Handlers of the HP inputs *)

SetHitPoints(raw) ==
    /\ NoOverlay
    /\ Commit(setHitPoints(character, raw), "setHitPoints")
    /\ UNCHANGED uiVars

SetMaxHitPoints(raw) ==
    /\ NoOverlay
    /\ Commit(setMaxHitPoints(character, raw), "setMaxHitPoints")
    /\ UNCHANGED uiVars

SetTempHp(raw) ==
    /\ NoOverlay
    /\ Commit(setTempHp(character, raw), "setTempHp")
    /\ UNCHANGED uiVars

----------------------------------------------------------------------------
(* Level-up modal *)

UiOnly ==
    /\ lastOp' = "ui"
    /\ before' = character
    /\ UNCHANGED << character, lastSaved, inflight, stored, storeLatency,
                    lastSaveFailed, form, pageVars >>

(* Level Up button, rendered while level < 20; bound caps the model *)
OpenLevelUp(bound) ==
    /\ NoOverlay
    /\ character.level < LevelCap
    /\ character.level < bound
    /\ showLevelUpModal' = TRUE
    /\ UiOnly
    /\ UNCHANGED << levelUpHPChoice, levelUpHPRoll, pendingRest >>

ChooseAverage ==
    /\ showLevelUpModal
    /\ character.class = "Bard"
    /\ levelUpHPChoice' = "average"
    /\ levelUpHPRoll' = 0
    /\ UiOnly
    /\ UNCHANGED << showLevelUpModal, pendingRest >>

ChooseRoll ==
    /\ showLevelUpModal
    /\ character.class = "Bard"
    /\ levelUpHPChoice' = "roll"
    /\ UiOnly
    /\ UNCHANGED << showLevelUpModal, levelUpHPRoll, pendingRest >>

RollD8(roll) ==
    /\ showLevelUpModal
    /\ character.class = "Bard"
    /\ levelUpHPChoice = "roll"
    /\ levelUpHPRoll' = roll
    /\ UiOnly
    /\ UNCHANGED << showLevelUpModal, levelUpHPChoice, pendingRest >>

CancelLevelUp ==
    /\ showLevelUpModal
    /\ showLevelUpModal' = FALSE
    /\ levelUpHPChoice' = "average"
    /\ levelUpHPRoll' = 0
    /\ UiOnly
    /\ UNCHANGED pendingRest

(* Confirm Level Up onClick; a Bard who chose 'roll' without rolling gets   *)
(* the alert and nothing changes                                            *)
ConfirmLevelUp ==
    /\ showLevelUpModal
    /\ ~(character.class = "Bard" /\ levelUpHPChoice = "roll" /\ levelUpHPRoll = 0)
    /\ Commit(levelUp(character, levelUpHPChoice, levelUpHPRoll), "levelUp")
    /\ showLevelUpModal' = FALSE
    /\ levelUpHPChoice' = "average"
    /\ levelUpHPRoll' = 0
    /\ UNCHANGED pendingRest

----------------------------------------------------------------------------
(* Rest dialogs *)

OpenRest(kind) ==
    /\ NoOverlay
    /\ pendingRest' = kind
    /\ UiOnly
    /\ UNCHANGED << showLevelUpModal, levelUpHPChoice, levelUpHPRoll >>

CloseRest ==
    /\ pendingRest # "null"
    /\ pendingRest' = "null"
    /\ UiOnly
    /\ UNCHANGED << showLevelUpModal, levelUpHPChoice, levelUpHPRoll >>

ConfirmLongRest ==
    /\ pendingRest = "long"
    /\ Commit(applyLongRest(character), "longRest")
    /\ pendingRest' = "null"
    /\ UNCHANGED << showLevelUpModal, levelUpHPChoice, levelUpHPRoll >>

(* Spend 1 Hit Die onClick: returns at once when no die is available; the   *)
(* button is disabled then                                                  *)
SpendHitDie(roll) ==
    /\ pendingRest = "short"
    /\ available(character) > 0
    /\ roll \in 1 .. classHitDie(character.class)
    /\ Commit(spendHitDie(character, roll), "spendHitDie")
    /\ UNCHANGED uiVars

----------------------------------------------------------------------------
(* Feature checkbox and spell-slot buttons *)

(* The long-rest checkbox is rendered for Relentless Endurance of a Half-Orc *)
ToggleUsedAbility(abilityId) ==
    /\ NoOverlay
    /\ character.race = "Half-Orc"
    /\ Commit(toggleUsedAbility(character, abilityId), "toggleUsedAbility")
    /\ UNCHANGED uiVars

ToggleSpellSlot(level, slotIndex) ==
    /\ NoOverlay
    /\ Commit(toggleSpellSlot(character, level, slotIndex), "toggleSpellSlot")
    /\ UNCHANGED uiVars

(* One button per element of the row *)
ToggleDeathSave(kind, i) ==
    /\ NoOverlay
    /\ i \in 0 .. (Len(IF kind = "success" THEN character.death_saves_success
                                            ELSE character.death_saves_failure) - 1)
    /\ Commit(toggleDeathSave(character, kind, i), "toggleDeathSave")
    /\ UNCHANGED uiVars

ToggleInspiration ==
    /\ NoOverlay
    /\ Commit(toggleInspiration(character), "toggleInspiration")
    /\ UNCHANGED uiVars

UpdateCurrency(field, text) ==
    /\ NoOverlay
    /\ Commit(updateCurrency(character, field, text), "updateCurrency")
    /\ UNCHANGED uiVars

(* Add Item modal confirmed with a non-blank name; bound caps the list *)
AddItem(name, bound) ==
    /\ NoOverlay
    /\ Len(character.equipment) < bound
    /\ Commit(addItem(character, name), "addItem")
    /\ UNCHANGED uiVars

(* Remove on a listed item, then Delete Item confirmed *)
RemoveItem(index) ==
    /\ NoOverlay
    /\ index \in 0 .. Len(character.equipment) - 1
    /\ Commit(removeItem(character, index), "removeItem")
    /\ UNCHANGED uiVars

(* Indices of the slot buttons the spells tab renders for level 1 *)
SlotButtons(c) == 0 .. (maxSlots(c, 1) - 1)

----------------------------------------------------------------------------
(* The other pages before they are first visited *)
PagesUnmounted ==
    /\ derived = "none"
    /\ srdApi = "none"
    /\ notesPage = "none"
    /\ diceRoller = "none"

(* The sheet after loadCharacter has fetched a character the builder made   *)

InitSheet(latency) ==
    /\ \E cls \in BuiltClasses, con \in BuiltConstitutions :
          /\ character = newCharacter(cls, con)
          /\ stored = newCharacter(cls, con)
    /\ showLevelUpModal = FALSE
    /\ levelUpHPChoice = "average"
    /\ levelUpHPRoll = 0
    /\ pendingRest = "null"
    /\ lastSaved = "Date"
    /\ inflight = << >>
    /\ storeLatency = latency
    /\ lastOp = "load"
    /\ before = character
    /\ lastSaveFailed = FALSE
    /\ form = "closed"
    /\ PagesUnmounted

Init == InitSheet("prompt")

Next ==
    \/ \E raw \in HpInputs : SetHitPoints(raw)
    \/ \E raw \in MaxHpInputs : SetMaxHitPoints(raw)
    \/ \E raw \in TempHpInputs : SetTempHp(raw)
    \/ OpenLevelUp(MaxLevel)
    \/ ChooseAverage
    \/ ChooseRoll
    \/ \E roll \in 1 .. 8 : RollD8(roll)
    \/ CancelLevelUp
    \/ ConfirmLevelUp
    \/ \E kind \in {"long", "short"} : OpenRest(kind)
    \/ CloseRest
    \/ ConfirmLongRest
    \/ \E roll \in 1 .. 12 : SpendHitDie(roll)

Spec == Init /\ [][Next]_vars

(* Resting: level-up at the average, the rest dialogs, the resources a     *)
(* long rest resets                                                        *)
NextRest ==
    \/ \E raw \in HpInputs : SetHitPoints(raw)
    \/ OpenLevelUp(MaxRestLevel)
    \/ CancelLevelUp
    \/ ConfirmLevelUp
    \/ \E kind \in {"long", "short"} : OpenRest(kind)
    \/ CloseRest
    \/ ConfirmLongRest
    \/ \E roll \in 1 .. 12 : SpendHitDie(roll)
    \/ ToggleUsedAbility("relentless_endurance")
    \/ \E si \in SlotButtons(character) : ToggleSpellSlot(1, si)

SpecRest == Init /\ [][NextRest]_vars

----------------------------------------------------------------------------
(* The record store answering save_character requests.  Requests are sent   *)
(* without waiting for earlier ones, and the store takes no ordering token, *)
(* so the requests in flight are answered in any order.                     *)

RemoveAt(seq, i) == [j \in 1 .. Len(seq) - 1 |-> IF j < i THEN seq[j] ELSE seq[j + 1]]

(* save_character succeeds: upsert of the whole record; setLastSaved *)
SaveComplete(i) ==
    /\ i \in 1 .. Len(inflight)
    /\ stored' = inflight[i]
    /\ inflight' = RemoveAt(inflight, i)
    /\ lastSaved' = "Date"
    /\ lastSaveFailed' = FALSE
    /\ UNCHANGED << character, uiVars, storeLatency, lastOp, before, form, pageVars >>

(* save_character rejects: the catch block logs to the console *)
SaveFail(i) ==
    /\ i \in 1 .. Len(inflight)
    /\ inflight' = RemoveAt(inflight, i)
    /\ lastSaveFailed' = TRUE
    /\ UNCHANGED << character, uiVars, stored, lastSaved, storeLatency, lastOp, before,
                    form, pageVars >>

(* The persistence status the sheet header renders *)
SheetStatus == IF lastSaved # "null" THEN "Last saved" ELSE "none"

InitAsync == InitSheet("async")

NextOrder ==
    \/ ToggleUsedAbility("relentless_endurance")
    \/ \E raw \in TempHpInputs : SetTempHp(raw)
    \/ \E i \in 1 .. MaxInFlight : SaveComplete(i)

SpecOrder == InitAsync /\ [][NextOrder]_vars

NextSave ==
    \/ ToggleUsedAbility("relentless_endurance")
    \/ \E raw \in TempHpInputs : SetTempHp(raw)
    \/ \E i \in 1 .. MaxInFlight : SaveComplete(i)
    \/ \E i \in 1 .. MaxInFlight : SaveFail(i)

SpecSave == InitAsync /\ [][NextSave]_vars

----------------------------------------------------------------------------
(* toggleSpellSlot called with any slot index, the rest dialog resetting   *)
(* the used slots                                                          *)

SlotIndexInputs == {-1, 0, 1, 2, 3}

NextSlot ==
    \/ \E si \in SlotIndexInputs : ToggleSpellSlot(1, si)
    \/ OpenRest("long")
    \/ CloseRest
    \/ ConfirmLongRest

SpecSlot == Init /\ [][NextSlot]_vars

----------------------------------------------------------------------------
(* Death saves between level-ups and long rests *)

NextDeath ==
    \/ \E kind \in {"success", "failure"}, i \in 0 .. 3 : ToggleDeathSave(kind, i)
    \/ \E raw \in HpInputs : SetHitPoints(raw)
    \/ OpenLevelUp(MaxLevel)
    \/ CancelLevelUp
    \/ ConfirmLevelUp
    \/ OpenRest("long")
    \/ CloseRest
    \/ ConfirmLongRest

SpecDeath == Init /\ [][NextDeath]_vars

----------------------------------------------------------------------------
(* Repeated level-ups, by average or by roll, between edits of current HP *)

NextLevel ==
    \/ \E raw \in HpInputs : SetHitPoints(raw)
    \/ OpenLevelUp(MaxRestLevel)
    \/ ChooseAverage
    \/ ChooseRoll
    \/ \E roll \in 1 .. 8 : RollD8(roll)
    \/ CancelLevelUp
    \/ ConfirmLevelUp

SpecLevel == Init /\ [][NextLevel]_vars

----------------------------------------------------------------------------
(* Every mutation of the sheet, on a built Bard *)

MaxEquipment == 8

NumericText(n) == [numeric |-> TRUE, value |-> n]
NonNumericText == [numeric |-> FALSE, value |-> 0]

InitBard ==
    /\ Init
    /\ character.class = "Bard"
    /\ character.constitution = 14

NextFrame ==
    \/ SetHitPoints(999)
    \/ SetMaxHitPoints(10)
    \/ SetTempHp(-5)
    \/ ToggleInspiration
    \/ ToggleDeathSave("failure", 0)
    \/ UpdateCurrency("gold", NonNumericText)
    \/ AddItem("Rope", MaxEquipment)
    \/ RemoveItem(7)
    \/ ToggleUsedAbility("relentless_endurance")
    \/ ToggleSpellSlot(1, 0)
    \/ OpenLevelUp(MaxLevel)
    \/ CancelLevelUp
    \/ ConfirmLevelUp
    \/ \E kind \in {"long", "short"} : OpenRest(kind)
    \/ CloseRest
    \/ ConfirmLongRest
    \/ SpendHitDie(8)

SpecFrame == InitBard /\ [][NextFrame]_vars

----------------------------------------------------------------------------
(* The four currency inputs, between long rests *)

CurrencyFields == {"platinum", "gold", "silver", "copper"}
CurrencyInputs == {NumericText(-3), NumericText(7), NonNumericText}

NextCurrency ==
    \/ \E field \in CurrencyFields, text \in CurrencyInputs : UpdateCurrency(field, text)
    \/ OpenRest("long")
    \/ CloseRest
    \/ ConfirmLongRest

SpecCurrency == Init /\ [][NextCurrency]_vars

----------------------------------------------------------------------------
(* The character builder: state of CharacterCreationForm *)

AbilityOrder ==
    << "strength", "dexterity", "constitution", "intelligence", "wisdom", "charisma" >>
AbilityNames == { AbilityOrder[i] : i \in 1 .. 6 }
STANDARD_ARRAY == << 15, 14, 13, 12, 10, 8 >>
TabOrder == << "basic", "class", "background", "species", "abilities", "review" >>

(* The useState initial values; tabTimers counts the setTimeout callbacks   *)
(* goNext has scheduled and that have not run yet                           *)
InitialForm ==
    [ open |-> TRUE,
      creationTab |-> "basic",
      name |-> "",
      alignment |-> "",
      selectedClass |-> "",
      bardSkills |-> << >>,
      bardMusicalInstruments |-> << "Lute", "Flute", "Drum" >>,
      bardCantrips |-> << >>,
      bardSpells |-> << >>,
      selectedBackground |-> "",
      selectedSpecies |-> "",
      halfElfExtraAbilities |-> << >>,
      halfElfSkills |-> << >>,
      halfElfExtraLanguage |-> "",
      humanExtraLanguage |-> "",
      selectedHalflingSubrace |-> "",
      selectedGnomeSubrace |-> "",
      skillProficiencies |-> { },
      abilityMethod |-> "standard",
      standardAssigned |-> [k \in AbilityNames |-> Undefined],
      abilities |-> [k \in AbilityNames |-> 10],
      rolledPool |-> << >>,
      pointBuyScores |-> [k \in AbilityNames |-> 8],
      tabTimers |-> 0 ]

(* !!standardAssigned[k]: an absent entry and 0 are both falsy *)
Truthy(v) == v # Undefined /\ v # 0

(* Mutant: every point above 8 costs 1 *)
pointBuyCostFor_FlatTable(score) == IF score <= 8 THEN 0 ELSE score - 8

RECURSIVE pointBuyCostFor(_)
pointBuyCostFor(score) ==
    IF score <= 8 THEN 0
    ELSE pointBuyCostFor(score - 1)
           + (IF score \in 9 .. 13 THEN 1 ELSE IF score \in 14 .. 15 THEN 2 ELSE 0)

RECURSIVE pointBuyTotalFrom(_, _)
pointBuyTotalFrom(scores, i) ==
    IF i > 6 THEN 0
    ELSE pointBuyCostFor(scores[AbilityOrder[i]]) + pointBuyTotalFrom(scores, i + 1)

validateBasic(f) == f.name # "" /\ f.alignment # ""

validateClassTab(f) ==
    /\ f.selectedClass # ""
    /\ f.selectedClass = "Bard" =>
          /\ Len(f.bardSkills) = 3
          /\ Len(f.bardMusicalInstruments) = 3
          /\ Len(f.bardCantrips) = 2
          /\ Len(f.bardSpells) = 4

validateBackgroundTab(f) == f.selectedBackground # ""

validateSpeciesTab(f) ==
    /\ f.selectedSpecies # ""
    /\ f.selectedSpecies = "Half-Elf" =>
          /\ Len(f.halfElfExtraAbilities) = 2
          /\ Len(f.halfElfSkills) = 2
          /\ f.halfElfExtraLanguage # ""
    /\ f.selectedSpecies = "Human" => f.humanExtraLanguage # ""
    /\ f.selectedSpecies = "Halfling" => f.selectedHalflingSubrace # ""

(* poolCounts[v] ?? 0 and assignedCounts[v] of the rolled validation *)
poolCount(f, v) == Cardinality({ i \in 1 .. Len(f.rolledPool) : f.rolledPool[i] = v })
assignedCount(f, v) == Cardinality({ k \in AbilityNames : f.abilities[k] = v })

(* Mutant: the rolled method only requires every ability to be assigned *)
validateAbilities_NoPoolCheck(f) ==
    /\ f.abilityMethod = "standard" =>
          \A k \in AbilityNames : Truthy(f.standardAssigned[k])
    /\ f.abilityMethod = "rolled" => \A k \in AbilityNames : f.abilities[k] > 0
    /\ f.abilityMethod = "pointbuy" => pointBuyTotalFrom(f.pointBuyScores, 1) <= 27

validateAbilities(f) ==
    /\ f.abilityMethod = "standard" =>
          \A k \in AbilityNames : Truthy(f.standardAssigned[k])
    /\ f.abilityMethod = "rolled" =>
          /\ \A k \in AbilityNames : f.abilities[k] > 0
          /\ \A k \in AbilityNames :
                poolCount(f, f.abilities[k]) >= assignedCount(f, f.abilities[k])
    /\ f.abilityMethod = "pointbuy" => pointBuyTotalFrom(f.pointBuyScores, 1) <= 27

(* Mutant: the species validation is left out of the build *)
firstFailing_SkipSpecies(f) ==
    IF ~validateBasic(f) THEN "basic"
    ELSE IF ~validateClassTab(f) THEN "class"
    ELSE IF ~validateBackgroundTab(f) THEN "background"
    ELSE IF ~validateAbilities(f) THEN "abilities"
    ELSE "none"

(* The tab the first failing validation of handleSubmit switches to *)
firstFailing(f) ==
    IF ~validateBasic(f) THEN "basic"
    ELSE IF ~validateClassTab(f) THEN "class"
    ELSE IF ~validateBackgroundTab(f) THEN "background"
    ELSE IF ~validateSpeciesTab(f) THEN "species"
    ELSE IF ~validateAbilities(f) THEN "abilities"
    ELSE "none"

(* Mutant: the build always takes the scores of the Manual inputs *)
submitBaseAbilities_AlwaysManual(f) == f.abilities

(* finalAbilities of handleSubmit: the scores of the chosen method plus the *)
(* racial bonuses                                                          *)
submitBaseAbilities(f) ==
    IF f.abilityMethod = "standard" THEN f.standardAssigned
    ELSE IF f.abilityMethod = "pointbuy" THEN f.pointBuyScores
    ELSE f.abilities

submitRacialBonus(f, k) ==
    LET sp == f.selectedSpecies
        extra == { i \in 1 .. Min(2, Len(f.halfElfExtraAbilities)) :
                     f.halfElfExtraAbilities[i] = k }
    IN  CASE sp = "Half-Elf" ->
               (IF k = "charisma" THEN 2 ELSE 0) + Cardinality(extra)
          [] sp = "Tiefling" ->
               IF k = "intelligence" THEN 1 ELSE IF k = "charisma" THEN 2 ELSE 0
          [] sp = "Gnome" ->
               IF k = "intelligence" THEN 2 ELSE IF k = "constitution" THEN 1 ELSE 0
          [] sp = "Half-Orc" ->
               IF k = "strength" THEN 2 ELSE IF k = "constitution" THEN 1 ELSE 0
          [] sp = "Human" -> 1
          [] sp = "Halfling" ->
               IF k = "dexterity" THEN 2
               ELSE IF k = "charisma" /\ f.selectedHalflingSubrace = "Lightfoot" THEN 1
               ELSE IF k = "constitution" /\ f.selectedHalflingSubrace = "Stout" THEN 1
               ELSE 0
          [] OTHER -> 0

submitFinalAbilities(f) ==
    [k \in AbilityNames |-> submitBaseAbilities(f)[k] + submitRacialBonus(f, k)]

(* The elements of a string array *)
Elements(seq) == { seq[i] : i \in 1 .. Len(seq) }

(* mergedSkillProficiencies of handleSubmit: the keys mapped to 1 *)
mergedSkillProficiencies(f) ==
    f.skillProficiencies
      \cup (IF f.selectedSpecies = "Half-Orc" THEN {"Intimidation"} ELSE { })
      \cup (IF f.selectedBackground = "Criminal" THEN {"Deception", "Stealth"} ELSE { })
      \cup (IF f.selectedClass = "Bard" THEN Elements(f.bardSkills) ELSE { })

(* The record handleSubmit saves *)
submittedCharacter(f) ==
    [newCharacter(f.selectedClass, submitFinalAbilities(f).constitution)
        EXCEPT !.race = f.selectedSpecies]
      @@ [ ability_scores |-> submitFinalAbilities(f),
           skill_proficiencies |-> mergedSkillProficiencies(f) ]

(* getFinalAbilities: the scores the Review tab presents *)
reviewBaseAbilities(f) ==
    IF f.abilityMethod = "standard"
    THEN [k \in AbilityNames |-> Coalesce(f.standardAssigned[k], f.abilities[k])]
    ELSE IF f.abilityMethod = "pointbuy" THEN f.pointBuyScores
    ELSE f.abilities

(* Mutant: the Review tab leaves out the constitution bonus of a Gnome *)
reviewRacialBonus_NoRockGnome(f, k) ==
    IF f.selectedSpecies = "Gnome"
    THEN IF k = "intelligence" THEN 2 ELSE 0
    ELSE submitRacialBonus(f, k)

(* The bonuses are those of handleSubmit, but for the Rock Gnome test *)
reviewRacialBonus(f, k) ==
    IF f.selectedSpecies = "Gnome"
    THEN IF k = "intelligence" THEN 2
         ELSE IF k = "constitution" /\ f.selectedGnomeSubrace = "Rock Gnome" THEN 1
         ELSE 0
    ELSE submitRacialBonus(f, k)

getFinalAbilities(f) ==
    [k \in AbilityNames |-> reviewBaseAbilities(f)[k] + reviewRacialBonus(f, k)]

(* A handler of the form: the sheet is not mounted while the builder is open *)
FormStep(updated, op) ==
    /\ form' = updated
    /\ lastOp' = op
    /\ before' = form
    /\ UNCHANGED << character, uiVars, lastSaved, inflight, storeLatency, lastSaveFailed,
                    pageVars >>

OnTab(tab) == form.open /\ form.creationTab = tab

SetName(text) ==
    /\ OnTab("basic")
    /\ FormStep([form EXCEPT !.name = text], "edit")
    /\ UNCHANGED stored

SetAlignment(text) ==
    /\ OnTab("basic")
    /\ FormStep([form EXCEPT !.alignment = text], "edit")
    /\ UNCHANGED stored

SelectClass(cls) ==
    /\ OnTab("class")
    /\ FormStep([form EXCEPT !.selectedClass = cls], "edit")
    /\ UNCHANGED stored

SelectBackground(bg) ==
    /\ OnTab("background")
    /\ FormStep([form EXCEPT !.selectedBackground = bg], "edit")
    /\ UNCHANGED stored

(* Species select onChange, with the effect that resets the choices of the *)
(* species left                                                            *)
selectSpecies(f, sp) ==
    LET g == [f EXCEPT !.selectedSpecies = sp]
        h == IF sp # "Half-Elf"
             THEN [g EXCEPT !.halfElfExtraAbilities = << >>,
                            !.halfElfSkills = << >>,
                            !.halfElfExtraLanguage = ""]
             ELSE g
        i == IF sp # "Human" THEN [h EXCEPT !.humanExtraLanguage = ""] ELSE h
        j == IF sp # "Halfling" THEN [i EXCEPT !.selectedHalflingSubrace = ""] ELSE i
        l == [j EXCEPT !.selectedGnomeSubrace = IF sp = "Gnome" THEN "Rock Gnome" ELSE ""]
    IN  IF sp = "Half-Elf"
        THEN [l EXCEPT !.skillProficiencies = Elements(f.halfElfSkills)]
        ELSE l

SelectSpecies(sp) ==
    /\ OnTab("species")
    /\ sp # form.selectedSpecies
    /\ FormStep(selectSpecies(form, sp), "edit")
    /\ UNCHANGED stored

SelectHalflingSubrace(sub) ==
    /\ OnTab("species")
    /\ form.selectedSpecies = "Halfling"
    /\ FormStep([form EXCEPT !.selectedHalflingSubrace = sub], "edit")
    /\ UNCHANGED stored

(* next.filter(Boolean) *)
RECURSIVE filterBoolean(_)
filterBoolean(seq) ==
    IF seq = << >> THEN << >>
    ELSE IF Head(seq) = "" THEN filterBoolean(Tail(seq))
    ELSE << Head(seq) >> \o filterBoolean(Tail(seq))

(* Mutant: the other select keeps its ability when the same one is chosen *)
setHalfElfExtraAbility_KeepOther(arr, index, val) ==
    LET at(i) == IF i <= Len(arr) THEN arr[i] ELSE ""
    IN  filterBoolean(IF index = 1 THEN << val, at(2) >> ELSE << at(1), val >>)

(* Half-Elf +1 selects: the choice is written at its index (a hole or an   *)
(* absent entry is dropped by the filter), the other entry is blanked when *)
(* it holds the same ability                                              *)
setHalfElfExtraAbility(arr, index, val) ==
    LET at(i) == IF i <= Len(arr) THEN arr[i] ELSE ""
        next == IF index = 1
                THEN << val, IF at(2) = val THEN "" ELSE at(2) >>
                ELSE << IF at(1) = val THEN "" ELSE at(1), val >>
    IN  filterBoolean(next)

(* The options leave out charisma; "Select ability..." is the empty string *)
HalfElfAbilityOptions == (AbilityNames \ {"charisma"}) \cup {""}

SelectHalfElfAbility(index, val) ==
    /\ OnTab("species")
    /\ form.selectedSpecies = "Half-Elf"
    /\ val \in HalfElfAbilityOptions
    /\ val # (IF index <= Len(form.halfElfExtraAbilities)
              THEN form.halfElfExtraAbilities[index] ELSE "")
    /\ FormStep([form EXCEPT !.halfElfExtraAbilities =
                                setHalfElfExtraAbility(@, index, val)], "edit")
    /\ UNCHANGED stored

(* x => x !== s over a string array *)
RECURSIVE without(_, _)
without(seq, s) ==
    IF seq = << >> THEN << >>
    ELSE IF Head(seq) = s THEN without(Tail(seq), s)
    ELSE << Head(seq) >> \o without(Tail(seq), s)

(* Skill Versatility checkbox, disabled once two other skills are checked; *)
(* the effect on halfElfSkills then rebuilds skillProficiencies           *)
toggleHalfElfSkill(f, s) ==
    LET skills == IF s \in Elements(f.halfElfSkills)
                  THEN without(f.halfElfSkills, s)
                  ELSE Append(f.halfElfSkills, s)
    IN  [f EXCEPT !.halfElfSkills = skills, !.skillProficiencies = Elements(skills)]

ToggleHalfElfSkill(s) ==
    /\ OnTab("species")
    /\ form.selectedSpecies = "Half-Elf"
    /\ s \in Elements(form.halfElfSkills) \/ Len(form.halfElfSkills) < 2
    /\ FormStep(toggleHalfElfSkill(form, s), "edit")
    /\ UNCHANGED stored

SelectHalfElfLanguage(lang) ==
    /\ OnTab("species")
    /\ form.selectedSpecies = "Half-Elf"
    /\ FormStep([form EXCEPT !.halfElfExtraLanguage = lang], "edit")
    /\ UNCHANGED stored

SelectHumanLanguage(lang) ==
    /\ OnTab("species")
    /\ form.selectedSpecies = "Human"
    /\ FormStep([form EXCEPT !.humanExtraLanguage = lang], "edit")
    /\ UNCHANGED stored

(* PointBuyEditor: the - and + buttons of one ability *)
change(scores, ability, delta) ==
    [scores EXCEPT ![ability] = Min(15, Max(8, scores[ability] + delta))]

ChangePointBuy(ability, delta, cap) ==
    /\ OnTab("abilities")
    /\ form.abilityMethod = "pointbuy"
    /\ form.pointBuyScores[ability] + delta <= cap
    /\ FormStep([form EXCEPT !.pointBuyScores = change(@, ability, delta)], "edit")
    /\ UNCHANGED stored

(* rollAllStats: a fresh pool of six rolls, every ability back to 0 *)
rollAllStats(f, pool) ==
    [f EXCEPT !.rolledPool = pool, !.abilities = [k \in AbilityNames |-> 0]]

(* Method buttons; the Rolled button also rolls *)
SetAbilityMethod(method, pool) ==
    /\ OnTab("abilities")
    /\ FormStep(IF method = "rolled"
                THEN rollAllStats([form EXCEPT !.abilityMethod = method], pool)
                ELSE [form EXCEPT !.abilityMethod = method], "edit")
    /\ UNCHANGED stored

RollAllStats(pool) ==
    /\ OnTab("abilities")
    /\ form.abilityMethod = "rolled"
    /\ FormStep(rollAllStats(form, pool), "edit")
    /\ UNCHANGED stored

(* Mutant: every select offers the whole array *)
standardOptions_Unfiltered(f, key) == { STANDARD_ARRAY[i] : i \in 1 .. 6 }

(* Options of the standard-array select of one ability: the values no other *)
(* ability holds                                                            *)
standardOptions(f, key) ==
    LET used == { f.standardAssigned[k] : k \in AbilityNames \ {key} }
    IN  { STANDARD_ARRAY[i] : i \in 1 .. 6 } \ (used \ {f.standardAssigned[key]})

(* Standard-array select onChange; "Select" stores Number('') = 0 *)
AssignStandard(key, v) ==
    /\ OnTab("abilities")
    /\ form.abilityMethod = "standard"
    /\ v \in standardOptions(form, key) \cup {0}
    /\ FormStep([form EXCEPT !.standardAssigned[key] = v], "edit")
    /\ UNCHANGED stored

(* An option of the rolled select is disabled once the other abilities hold *)
(* as many copies of the value as the pool has                              *)
rolledOptionEnabled(f, key, v) ==
    /\ \E i \in 1 .. Len(f.rolledPool) : f.rolledPool[i] = v
    /\ Cardinality({ k \in AbilityNames \ {key} : f.abilities[k] = v }) < poolCount(f, v)

(* Rolled select onChange; "Unassigned" stores 0 *)
AssignRolled(key, v) ==
    /\ OnTab("abilities")
    /\ form.abilityMethod = "rolled"
    /\ v = 0 \/ rolledOptionEnabled(form, key, v)
    /\ FormStep([form EXCEPT !.abilities[key] = v], "edit")
    /\ UNCHANGED stored

(* Auto-Assign: each unassigned ability, in order, takes pool.shift() ?? 0 *)
RECURSIVE autoAssignFrom(_, _, _)
autoAssignFrom(assign, pool, i) ==
    IF i > 6 THEN assign
    ELSE LET k == AbilityOrder[i]
         IN  IF assign[k] = 0
             THEN autoAssignFrom([assign EXCEPT ![k] = IF pool = << >> THEN 0 ELSE Head(pool)],
                                 IF pool = << >> THEN pool ELSE Tail(pool), i + 1)
             ELSE autoAssignFrom(assign, pool, i + 1)

AutoAssign ==
    /\ OnTab("abilities")
    /\ form.abilityMethod = "rolled"
    /\ FormStep([form EXCEPT !.abilities = autoAssignFrom(form.abilities, form.rolledPool, 1)],
                "edit")
    /\ UNCHANGED stored

TabIndex(tab) == CHOOSE i \in 1 .. 6 : TabOrder[i] = tab

(* goNext: a failed validation re-selects the current tab; a Halfling's    *)
(* move to Abilities is left to a 10 ms timer                              *)
goNext(f) ==
    CASE f.creationTab = "basic" ->
           IF validateBasic(f) THEN [f EXCEPT !.creationTab = "class"]
                               ELSE [f EXCEPT !.creationTab = "basic"]
      [] f.creationTab = "class" ->
           IF validateClassTab(f) THEN [f EXCEPT !.creationTab = "background"]
                                  ELSE [f EXCEPT !.creationTab = "class"]
      [] f.creationTab = "background" ->
           IF validateBackgroundTab(f) THEN [f EXCEPT !.creationTab = "species"]
                                       ELSE [f EXCEPT !.creationTab = "background"]
      [] f.creationTab = "species" ->
           IF ~validateSpeciesTab(f) THEN [f EXCEPT !.creationTab = "species"]
           ELSE IF f.selectedSpecies = "Halfling"
                THEN [f EXCEPT !.tabTimers = @ + 1]
                ELSE [f EXCEPT !.creationTab = "abilities"]
      [] f.creationTab = "abilities" ->
           IF validateAbilities(f) THEN [f EXCEPT !.creationTab = "review"]
                                   ELSE [f EXCEPT !.creationTab = "abilities"]
      [] OTHER -> f

goBack(f) ==
    CASE f.creationTab = "review" -> [f EXCEPT !.creationTab = "abilities"]
      [] f.creationTab = "abilities" -> [f EXCEPT !.creationTab = "species"]
      [] f.creationTab = "species" -> [f EXCEPT !.creationTab = "background"]
      [] f.creationTab = "background" -> [f EXCEPT !.creationTab = "class"]
      [] f.creationTab = "class" -> [f EXCEPT !.creationTab = "basic"]
      [] OTHER -> f

(* Next button, rendered on every tab but Review; bound caps the timers *)
GoNext(bound) ==
    /\ form.open
    /\ form.creationTab # "review"
    /\ goNext(form).tabTimers <= bound
    /\ FormStep(goNext(form), "goNext")
    /\ UNCHANGED stored

(* Back button, rendered on every tab but Basic *)
GoBack ==
    /\ form.open
    /\ form.creationTab # "basic"
    /\ FormStep(goBack(form), "goBack")
    /\ UNCHANGED stored

(* The tab buttons at the top of the form *)
SelectTab(tab) ==
    /\ form.open
    /\ FormStep([form EXCEPT !.creationTab = tab], "selectTab")
    /\ UNCHANGED stored

(* The callback of setTimeout(() => setCreationTab('abilities'), 10) *)
TabTimer ==
    /\ form.open
    /\ form.tabTimers > 0
    /\ FormStep([form EXCEPT !.creationTab = "abilities", !.tabTimers = @ - 1], "timer")
    /\ UNCHANGED stored

(* Create Character button of the Review tab: handleSubmit.  The checks     *)
(* repeated after the validations (standard, point buy) cannot fail once   *)
(* validateAbilities has passed; onSuccess closes the form.                *)
HandleSubmit ==
    /\ OnTab("review")
    /\ IF firstFailing(form) # "none"
       THEN /\ FormStep([form EXCEPT !.creationTab = firstFailing(form)], "build")
            /\ UNCHANGED stored
       ELSE /\ FormStep([form EXCEPT !.open = FALSE], "build")
            /\ stored' = submittedCharacter(form)

(* The builder opened from the characters page, nothing saved yet *)
InitBuilder ==
    /\ form = InitialForm
    /\ character = "none"
    /\ stored = "none"
    /\ showLevelUpModal = FALSE
    /\ levelUpHPChoice = "average"
    /\ levelUpHPRoll = 0
    /\ pendingRest = "null"
    /\ lastSaved = "null"
    /\ inflight = << >>
    /\ storeLatency = "prompt"
    /\ lastOp = "open"
    /\ before = InitialForm
    /\ lastSaveFailed = FALSE
    /\ PagesUnmounted

MaxTimers == 1

(* Stage navigation and the build, the abilities left to the Manual method *)
NextBuilder ==
    \/ SetName("Ana")
    \/ SetAlignment("Neutral")
    \/ \E cls \in {"Fighter", "Bard"} : SelectClass(cls)
    \/ SelectBackground("Criminal")
    \/ \E sp \in {"", "Half-Orc", "Halfling"} : SelectSpecies(sp)
    \/ SelectHalflingSubrace("Stout")
    \/ SetAbilityMethod("manual", << >>)
    \/ GoNext(MaxTimers)
    \/ GoBack
    \/ \E tab \in {"basic", "species", "review"} : SelectTab(tab)
    \/ TabTimer
    \/ HandleSubmit

SpecBuilder == InitBuilder /\ [][NextBuilder]_vars

(* Standard Array: the six selects, Next and Back around the Abilities tab *)

StandardPicks ==
    [ strength |-> {15, 14, 0}, dexterity |-> {14, 15, 8}, constitution |-> {13, 15},
      intelligence |-> {12}, wisdom |-> {10, 0}, charisma |-> {8, 15} ]

NextStandard ==
    \/ SelectTab("abilities")
    \/ \E key \in AbilityNames : \E v \in StandardPicks[key] : AssignStandard(key, v)
    \/ GoNext(MaxTimers)
    \/ GoBack

SpecStandard == InitBuilder /\ [][NextStandard]_vars

(* Rolled: rolling a pool, the six selects, Auto-Assign, Next and Back *)

RolledPools == { << 15, 15, 13, 12, 10, 8 >>, << 16, 13, 13, 12, 9, 8 >> }

RolledPicks ==
    [ strength |-> {13, 0}, dexterity |-> {15, 16}, constitution |-> {15, 13},
      intelligence |-> {12}, wisdom |-> {10, 9}, charisma |-> {8, 15} ]

NextRolled ==
    \/ SelectTab("abilities")
    \/ \E pool \in RolledPools : SetAbilityMethod("rolled", pool)
    \/ \E pool \in RolledPools : RollAllStats(pool)
    \/ \E key \in AbilityNames : \E v \in RolledPicks[key] : AssignRolled(key, v)
    \/ AutoAssign
    \/ GoNext(MaxTimers)
    \/ GoBack

SpecRolled == InitBuilder /\ [][NextRolled]_vars

(* The derived statistics: getAbilityModifier and getProficiencyBonus      *)
(* applied to a score and a level                                         *)

ScoreInputs == -20 .. 30
LevelInputs == 1 .. 24

(* Neither the sheet nor the builder is mounted *)
SheetUnmounted ==
    /\ character = "none"
    /\ stored = "none"
    /\ showLevelUpModal = FALSE
    /\ levelUpHPChoice = "average"
    /\ levelUpHPRoll = 0
    /\ pendingRest = "null"
    /\ lastSaved = "null"
    /\ inflight = << >>
    /\ storeLatency = "prompt"
    /\ lastSaveFailed = FALSE
    /\ form = "closed"

sheetVars ==
    << character, uiVars, stored, lastSaved, inflight, storeLatency, lastSaveFailed, form >>

InitDerived ==
    /\ SheetUnmounted
    /\ \E s \in ScoreInputs, l \in LevelInputs :
          derived = [ score |-> s, level |-> l, modifier |-> 0, proficiencyBonus |-> 0 ]
    /\ srdApi = "none"
    /\ notesPage = "none"
    /\ diceRoller = "none"
    /\ lastOp = "none"
    /\ before = derived

CallGetAbilityModifier ==
    /\ derived' = [derived EXCEPT !.modifier = getAbilityModifier(derived.score)]
    /\ lastOp' = "getAbilityModifier"
    /\ before' = derived
    /\ UNCHANGED << sheetVars, srdApi, notesPage, diceRoller >>

CallGetProficiencyBonus ==
    /\ derived' = [derived EXCEPT !.proficiencyBonus = getProficiencyBonus(derived.level)]
    /\ lastOp' = "getProficiencyBonus"
    /\ before' = derived
    /\ UNCHANGED << sheetVars, srdApi, notesPage, diceRoller >>

NextDerived == CallGetAbilityModifier \/ CallGetProficiencyBonus

SpecDerived == InitDerived /\ [][NextDerived]_vars

(* utils/srdApi.ts: fetchJson called for a URL, and the answers to the     *)
(* requests it has sent, in any order                                     *)

MaxFetches == 2
Urls == {"/api/spells", "/api/monsters"}
Bodies == {"body-1", "body-2"}
Absent == "absent"

(* A step of srdApi; before keeps the module state the step started from *)
ApiStep(updated, op) ==
    /\ srdApi' = updated
    /\ lastOp' = op
    /\ before' = srdApi
    /\ UNCHANGED << sheetVars, derived, notesPage, diceRoller >>

(* fetchJson up to its first await: a cached URL returns cache.get(url),  *)
(* any other sends a request                                              *)
fetchJson(api, url) ==
    IF api.cache[url] # Absent
    THEN [api EXCEPT !.url = url, !.returned = api.cache[url]]
    ELSE [api EXCEPT !.url = url, !.returned = Absent, !.pending = Append(@, url)]

FetchJson(url) ==
    /\ Len(fetchJson(srdApi, url).pending) <= MaxFetches
    /\ ApiStep(fetchJson(srdApi, url), "fetchJson")

(* res.ok and res.json() resolved: cache.set(url, data); return data *)
fetchResolved(api, i, data) ==
    [api EXCEPT !.cache[api.pending[i]] = data, !.url = api.pending[i],
                !.returned = data, !.pending = RemoveAt(@, i)]

FetchResolved(i, data) ==
    /\ i \in 1 .. Len(srdApi.pending)
    /\ ApiStep(fetchResolved(srdApi, i, data), "resolved")

(* Mutant: a failure drops what the cache holds *)
fetchRejected_ClearsCache(api, i) ==
    [api EXCEPT !.cache = [u \in Urls |-> Absent], !.url = api.pending[i],
                !.returned = Absent, !.pending = RemoveAt(@, i)]

(* fetch rejected, !res.ok, or res.json() rejected: fetchJson throws       *)
(* before cache.set                                                       *)
fetchRejected(api, i) ==
    [api EXCEPT !.url = api.pending[i], !.returned = Absent, !.pending = RemoveAt(@, i)]

FetchRejected(i) ==
    /\ i \in 1 .. Len(srdApi.pending)
    /\ ApiStep(fetchRejected(srdApi, i), "rejected")

InitApi ==
    /\ SheetUnmounted
    /\ derived = "none"
    /\ notesPage = "none"
    /\ diceRoller = "none"
    /\ srdApi = [ cache |-> [u \in Urls |-> Absent], pending |-> << >>,
                  url |-> "", returned |-> Absent ]
    /\ lastOp = "load"
    /\ before = srdApi

NextApi ==
    \/ \E url \in Urls : FetchJson(url)
    \/ \E i \in 1 .. MaxFetches : \E data \in Bodies : FetchResolved(i, data)
    \/ \E i \in 1 .. MaxFetches : FetchRejected(i)

SpecApi == InitApi /\ [][NextApi]_vars

(* NotesPage: two saved notes, the note list, the Edit/Preview button, the *)
(* editor, and the two debounce timers.  A handler is taken with the      *)
(* effects of the renders it causes; a timer callback is a step of its own *)

NoteIds == {"n1", "n2"}
Texts == {"<p>a</p>", "<p>b</p>"}
NoTimer == [ set |-> FALSE ]

NotesStep(updated, op) ==
    /\ notesPage' = updated
    /\ lastOp' = op
    /\ before' = notesPage
    /\ UNCHANGED << sheetVars, derived, srdApi, diceRoller >>

(* useEffect [editorContent, selectedNoteId]: the cleanup clears the timer *)
(* of the previous run; the new callback closes over the selected note of  *)
(* this render and over editorContent                                     *)
debounceEffect(p) ==
    IF p.selectedNoteId = "null" THEN [p EXCEPT !.editTimer = NoTimer]
    ELSE [p EXCEPT !.editTimer =
            [ set |-> TRUE, id |-> p.selectedNoteId,
              noteContent |-> p.notes[p.selectedNoteId],
              editorContent |-> p.editorContent ]]

(* Click on a note of the list: setSelectedNoteId(note.id).  The sync      *)
(* effect sets editorContent to the content of the note, and the debounce *)
(* effect runs again in the render that follows                           *)
selectNote(p, id) ==
    debounceEffect([p EXCEPT !.selectedNoteId = id, !.editorContent = p.notes[id]])

SelectNote(id) ==
    /\ id # notesPage.selectedNoteId
    /\ NotesStep(selectNote(notesPage, id), "selectNote")

(* Edit / Preview button *)
TogglePreview ==
    /\ notesPage.selectedNoteId # "null"
    /\ NotesStep([notesPage EXCEPT !.showPreview = ~@], "togglePreview")

(* onQuillChange: typing in the editor of the selected note; typed is the  *)
(* last html typed into each note                                         *)
onQuillChange(p, html) ==
    IF html # p.editorContent
    THEN debounceEffect([p EXCEPT !.editorContent = html,
                                  !.typed[p.selectedNoteId] = html])
    ELSE p

OnQuillChange(html) ==
    /\ notesPage.selectedNoteId # "null"
    /\ ~notesPage.showPreview
    /\ NotesStep(onQuillChange(notesPage, html), "onQuillChange")

(* The 500 ms callback: updateNote when the content differs; the effect on *)
(* notes then restarts the 600 ms timer with the new notes                *)
editTimerFired(p) ==
    LET t == p.editTimer
    IN  IF t.noteContent # t.editorContent
        THEN [p EXCEPT !.editTimer = NoTimer,
                       !.notes[t.id] = t.editorContent,
                       !.persistTimer =
                           [ set |-> TRUE,
                             notes |-> [p.notes EXCEPT ![t.id] = t.editorContent] ]]
        ELSE [p EXCEPT !.editTimer = NoTimer]

EditTimerFired ==
    /\ notesPage.editTimer.set
    /\ NotesStep(editTimerFired(notesPage), "editTimer")

(* The 600 ms callback: localStorage.setItem(STORAGE_KEY, notes) *)
PersistTimerFired ==
    /\ notesPage.persistTimer.set
    /\ NotesStep([notesPage EXCEPT !.localStorage = notesPage.persistTimer.notes,
                                   !.persistTimer = NoTimer], "persistTimer")

(* The page after the saved notes are loaded and written back once *)
InitNotes ==
    /\ SheetUnmounted
    /\ derived = "none"
    /\ srdApi = "none"
    /\ diceRoller = "none"
    /\ notesPage = [ notes |-> [n \in NoteIds |-> ""],
                     selectedNoteId |-> "null",
                     showPreview |-> TRUE,
                     editorContent |-> "",
                     editTimer |-> NoTimer,
                     persistTimer |-> NoTimer,
                     localStorage |-> [n \in NoteIds |-> ""],
                     typed |-> [n \in NoteIds |-> ""] ]
    /\ lastOp = "load"
    /\ before = notesPage

NextNotes ==
    \/ \E id \in NoteIds : SelectNote(id)
    \/ TogglePreview
    \/ \E html \in Texts : OnQuillChange(html)
    \/ EditTimerFired
    \/ PersistTimerFired

SpecNotes == InitNotes /\ [][NextNotes]_vars

(* DiceRoller: the expression input, the Roll and quick-roll buttons, the  *)
(* Enter key, the 1500 ms timers, and the removal and clearing of history. *)
(* A roll is named by the order it was started in; isClearing only gates  *)
(* the write to localStorage and is left out                              *)

MaxRolls == 3
Expressions == {"1d20", "abc"}

DiceStep(updated, op) ==
    /\ diceRoller' = updated
    /\ lastOp' = op
    /\ before' = diceRoller
    /\ UNCHANGED << sheetVars, derived, srdApi, notesPage >>

(* parseDiceExpression: /(\d+)?d(\d+)([+-]?\d+)?/i matches *)
parses(expression) == expression = "1d20"

(* handleRoll(expr): the callback of setTimeout closes over the results    *)
(* of the render the roll was started in                                  *)
handleRoll(d, expr) ==
    LET expression == IF expr # "" THEN expr ELSE d.input
    IN  IF expression = "" \/ ~parses(expression) THEN d
        ELSE [d EXCEPT !.isRolling = TRUE,
                       !.started = @ + 1,
                       !.timers = Append(@, [ id |-> d.started + 1, results |-> d.results ]),
                       !.input = IF expr = "" THEN "" ELSE @]

(* The input onChange *)
SetInput(text) ==
    /\ text # diceRoller.input
    /\ DiceStep([diceRoller EXCEPT !.input = text], "setInput")

(* Roll button, disabled while isRolling *)
RollButton ==
    /\ ~diceRoller.isRolling
    /\ handleRoll(diceRoller, "").started <= MaxRolls
    /\ DiceStep(handleRoll(diceRoller, ""), "handleRoll")

(* Enter in the input: handleRoll() whatever isRolling is *)
EnterKey ==
    /\ handleRoll(diceRoller, "").started <= MaxRolls
    /\ DiceStep(handleRoll(diceRoller, ""), "handleRoll")

(* Quick-roll buttons, disabled while isRolling *)
QuickRoll(expr) ==
    /\ ~diceRoller.isRolling
    /\ handleRoll(diceRoller, expr).started <= MaxRolls
    /\ DiceStep(handleRoll(diceRoller, expr), "handleRoll")

(* The 1500 ms callback: setResults([roll, ...results]) with the results   *)
(* it closed over; equal delays run in the order they were set            *)
rollTimerFired(d) ==
    LET t == Head(d.timers)
    IN  [d EXCEPT !.results = << t.id >> \o t.results,
                  !.isRolling = FALSE,
                  !.timers = Tail(@),
                  !.added = @ \cup {t.id}]

RollTimerFired ==
    /\ diceRoller.timers # << >>
    /\ DiceStep(rollTimerFired(diceRoller), "rollTimer")

(* x => x !== id over the history *)
RECURSIVE withoutRoll(_, _)
withoutRoll(seq, id) ==
    IF seq = << >> THEN << >>
    ELSE IF Head(seq) = id THEN withoutRoll(Tail(seq), id)
    ELSE << Head(seq) >> \o withoutRoll(Tail(seq), id)

(* handleRemoveRoll: the remove button of a history entry *)
HandleRemoveRoll(id) ==
    /\ id \in Elements(diceRoller.results)
    /\ DiceStep([diceRoller EXCEPT !.results = withoutRoll(@, id),
                                   !.removed = @ \cup {id}], "handleRemoveRoll")

(* handleClearHistory: Clear All, shown while the history is not empty *)
HandleClearHistory ==
    /\ diceRoller.results # << >>
    /\ DiceStep([diceRoller EXCEPT !.results = << >>,
                                   !.removed = @ \cup Elements(diceRoller.results)],
                "handleClearHistory")

InitDice ==
    /\ SheetUnmounted
    /\ derived = "none"
    /\ srdApi = "none"
    /\ notesPage = "none"
    /\ diceRoller = [ input |-> "", results |-> << >>, isRolling |-> FALSE,
                      timers |-> << >>, started |-> 0, added |-> { }, removed |-> { } ]
    /\ lastOp = "load"
    /\ before = diceRoller

NextDice ==
    \/ \E text \in Expressions : SetInput(text)
    \/ RollButton
    \/ EnterKey
    \/ QuickRoll("1d20")
    \/ RollTimerFired
    \/ \E id \in 1 .. MaxRolls : HandleRemoveRoll(id)
    \/ HandleClearHistory

SpecDice == InitDice /\ [][NextDice]_vars

(* Point Buy: the form filled stage by stage, the - and + buttons pressed  *)
(* up to the listed scores, Next, the Review tab button and the build     *)

PointBuyCaps ==
    [ strength |-> 15, dexterity |-> 15, constitution |-> 15,
      intelligence |-> 12, wisdom |-> 10, charisma |-> 8 ]

NextPointBuy ==
    \/ SetName("Ana")
    \/ SetAlignment("Neutral")
    \/ SelectClass("Fighter")
    \/ SelectBackground("Criminal")
    \/ SelectSpecies("Half-Orc")
    \/ SetAbilityMethod("pointbuy", << >>)
    \/ \E k \in AbilityNames : \E delta \in {-1, 1} :
          ChangePointBuy(k, delta, PointBuyCaps[k])
    \/ GoNext(MaxTimers)
    \/ SelectTab("review")
    \/ HandleSubmit

SpecPointBuy == InitBuilder /\ [][NextPointBuy]_vars

(* Half-Elf: the species select, the two +1 selects, the Skill Versatility *)
(* checkboxes, the language select, Next and Back around the Species tab  *)

HalfElfSkillPicks == {"Arcana", "History", "Insight"}

NextHalfElf ==
    \/ SelectTab("species")
    \/ \E sp \in {"Half-Elf", "Human"} : SelectSpecies(sp)
    \/ \E index \in {1, 2} : \E val \in HalfElfAbilityOptions :
          SelectHalfElfAbility(index, val)
    \/ \E sk \in HalfElfSkillPicks : ToggleHalfElfSkill(sk)
    \/ SelectHalfElfLanguage("Dwarvish")
    \/ SelectHumanLanguage("Orc")
    \/ GoNext(MaxTimers)
    \/ GoBack

SpecHalfElf == InitBuilder /\ [][NextHalfElf]_vars

(* Creation end to end: every species with an ability bonus and one        *)
(* without, the four ability methods, the stages passed with Next; the     *)
(* standard array is assigned from the first select to the last, the      *)
(* point-buy scores and the Manual inputs are left as they start          *)

CreateSpecies == {"Elf", "Gnome", "Half-Elf", "Half-Orc", "Halfling", "Human", "Tiefling"}
CreatePool == << 16, 13, 13, 12, 9, 8 >>

NextCreate ==
    \/ SetName("Ana")
    \/ SetAlignment("Neutral")
    \/ SelectClass("Fighter")
    \/ SelectBackground("Criminal")
    \/ \E sp \in CreateSpecies : SelectSpecies(sp)
    \/ SelectHalfElfAbility(1, "strength")
    \/ \E val \in {"strength", "constitution"} : SelectHalfElfAbility(2, val)
    \/ \E sk \in {"Arcana", "History"} : ToggleHalfElfSkill(sk)
    \/ SelectHalfElfLanguage("Dwarvish")
    \/ SelectHumanLanguage("Orc")
    \/ \E sub \in {"Lightfoot", "Stout"} : SelectHalflingSubrace(sub)
    \/ \E method \in {"standard", "pointbuy", "manual"} : SetAbilityMethod(method, << >>)
    \/ SetAbilityMethod("rolled", CreatePool)
    \/ \E i \in 1 .. 6 :
          /\ IF i = 1 THEN TRUE ELSE Truthy(form.standardAssigned[AbilityOrder[i - 1]])
          /\ AssignStandard(AbilityOrder[i], STANDARD_ARRAY[i])
    \/ AutoAssign
    \/ GoNext(MaxTimers)
    \/ TabTimer
    \/ HandleSubmit

SpecCreate == InitBuilder /\ [][NextCreate]_vars

----------------------------------------------------------------------------
(* Properties *)

TempHp(c) == Coalesce(c.temp_hp, 0)
HitDiceRemaining(c) == Coalesce(c.hit_dice_remaining, c.level)

(* C1: after any sequence of sheet mutations on a built character,          *)
(* 0 <= hit_points <= max_hit_points + temp_hp.                             *)
C1_HitPointsInRange ==
    /\ 0 <= character.hit_points
    /\ character.hit_points <= character.max_hit_points + TempHp(character)

(* C2: max_hit_points stays >= 1 under setMaxHitPoints and level-up, for a  *)
(* built character whose ability scores lie in 1..30.                       *)
C2_MaxHitPointsPositive ==
    character.constitution \in 1 .. 30 => character.max_hit_points >= 1

(* C3: once every save issued has completed, the stored record is the       *)
(* snapshot of the latest mutation, whatever the order of completion.       *)
C3_LastWriteWins ==
    inflight = << >> => stored = character

(* C4: when a save fails the edit stays in memory and the sheet shows an    *)
(* unsaved state; it never presents the failed save as saved.               *)
C4_FailedSaveSurfaced ==
    lastSaveFailed => SheetStatus # "Last saved"

(* C5: a long rest empties used_abilities and spell_slots_used, sets        *)
(* hit_points to max_hit_points and hit_dice_remaining to                   *)
(* min(level, old + max(1, floor(level/2))), an absent old value being read *)
(* as level, and changes no other field.                                    *)
C5_LongRest ==
    lastOp = "longRest" =>
        character = [before EXCEPT
            !.used_abilities = << >>,
            !.spell_slots_used = << >>,
            !.hit_points = before.max_hit_points,
            !.hit_dice_remaining =
                Min(before.level,
                    HitDiceRemaining(before) + Max(1, before.level \div 2))]

C5_Witness ==
    /\ lastOp = "longRest"
    /\ before.level = 4
    /\ before.hit_dice_remaining = 0
    /\ before.used_abilities # << >>
    /\ before.spell_slots_used # << >>
    /\ before.hit_points < before.max_hit_points
    /\ character.hit_dice_remaining = 2

(* C6: spending a hit die is impossible with none remaining; otherwise it   *)
(* takes exactly one die and sets hit_points to                             *)
(* min(max_hit_points, old + max(0, roll + CON modifier)) for a roll of the *)
(* class die, so hit points never decrease and never exceed the maximum.    *)
C6_SpendHitDie ==
    lastOp = "spendHitDie" =>
        /\ HitDiceRemaining(before) > 0
        /\ character.hit_dice_remaining = HitDiceRemaining(before) - 1
        /\ \E roll \in 1 .. classHitDie(before.class) :
              character.hit_points =
                  Min(before.max_hit_points,
                      before.hit_points
                        + Max(0, roll + getAbilityModifier(before.constitution)))
        /\ character.hit_points >= before.hit_points
        /\ character.hit_points <= character.max_hit_points

(* C7: 0 <= hit_dice_remaining <= level in every state reached by level-up, *)
(* long rest and spending hit dice, an absent value being read as level.    *)
C7_HitDiceInRange ==
    /\ 0 <= HitDiceRemaining(character)
    /\ HitDiceRemaining(character) <= character.level

C7_Witness ==
    /\ lastOp = "spendHitDie"
    /\ character.level = 4
    /\ character.hit_dice_remaining = 0

(* C8: setHitPoints(v) yields hit_points = min(max(v, 0), max_hit_points),  *)
(* so 0 <= hit_points <= max_hit_points, and leaves max_hit_points and      *)
(* temp_hp unchanged.                                                       *)
C8_SetHitPoints ==
    lastOp = "setHitPoints" =>
        /\ \E v \in HpInputs :
              character.hit_points = Min(Max(v, 0), before.max_hit_points)
        /\ 0 <= character.hit_points
        /\ character.hit_points <= character.max_hit_points
        /\ character.max_hit_points = before.max_hit_points
        /\ character.temp_hp = before.temp_hp

(* C9: setMaxHitPoints(m) yields max_hit_points = max(1, m) and             *)
(* hit_points = min(old hit_points, new max_hit_points).                    *)
C9_SetMaxHitPoints ==
    lastOp = "setMaxHitPoints" =>
        /\ \E m \in MaxHpInputs : character.max_hit_points = Max(1, m)
        /\ character.hit_points = Min(before.hit_points, character.max_hit_points)

C9_Witness ==
    /\ lastOp = "setMaxHitPoints"
    /\ before.hit_points = 15
    /\ before.max_hit_points = 20
    /\ character.hit_points = 10
    /\ character.max_hit_points = 10

(* The used-array a level's slot buttons show before a toggle: the stored   *)
(* array, or all false when the level has no entry, padded to the count     *)
ShownSlots(c, level) ==
    LET n == maxSlots(c, level)
        arr == IF level \in DOMAIN c.spell_slots_used
               THEN c.spell_slots_used[level] ELSE << >>
    IN  [i \in 1 .. Max(n, Len(arr)) |-> IF i <= Len(arr) THEN arr[i] ELSE "false"]

(* C10: toggleSpellSlot(level, slotIndex) with slotIndex below the declared *)
(* count pads the level's used-array with false to the declared count,      *)
(* creating it when absent, and flips only the entry at slotIndex.          *)
C10_ToggleSpellSlot ==
    lastOp = "toggleSpellSlot" =>
        /\ 1 \in DOMAIN character.spell_slots_used
        /\ Len(character.spell_slots_used[1]) >= maxSlots(before, 1)
        /\ Len(character.spell_slots_used[1]) = Len(ShownSlots(before, 1))
        /\ \E si \in 0 .. maxSlots(before, 1) - 1 :
              \A i \in 1 .. Len(character.spell_slots_used[1]) :
                  character.spell_slots_used[1][i] =
                      IF i = si + 1
                      THEN (IF ShownSlots(before, 1)[i] = "true" THEN "false" ELSE "true")
                      ELSE ShownSlots(before, 1)[i]
        /\ character = [before EXCEPT !.spell_slots_used = character.spell_slots_used]

C10_Witness ==
    /\ lastOp = "toggleSpellSlot"
    /\ before.spell_slots = << 2 >>
    /\ before.spell_slots_used = << >>
    /\ character.spell_slots_used[1] = << "false", "true" >>

C12_DeathSaves ==
    /\ [](/\ character.death_saves_success \in [1 .. 3 -> BOOLEAN]
          /\ character.death_saves_failure \in [1 .. 3 -> BOOLEAN])
    /\ [][\A kind \in {"success", "failure"}, i \in 0 .. 2 :
            ToggleDeathSave(kind, i) =>
                \A k \in {"success", "failure"}, j \in 0 .. 2 :
                    LET old == IF k = "success" THEN character.death_saves_success[j + 1]
                                                ELSE character.death_saves_failure[j + 1]
                        new == IF k = "success" THEN character'.death_saves_success[j + 1]
                                                ELSE character'.death_saves_failure[j + 1]
                    IN  new = IF k = kind /\ j = i THEN ~old ELSE old]_vars

C12_Witness ==
    /\ lastOp = "toggleDeathSave"
    /\ before.death_saves_success = << TRUE, FALSE, FALSE >>
    /\ before.death_saves_failure = << FALSE, TRUE, TRUE >>
    /\ character.death_saves_success = << TRUE, FALSE, FALSE >>
    /\ character.death_saves_failure = << FALSE, TRUE, FALSE >>
    /\ character.level = 2

(* C13: confirming level-up raises level by exactly 1; for a Bard it adds   *)
(* the same amount to hit_points and max_hit_points (5 + CON modifier for   *)
(* 'average', the rolled d8 + CON modifier for 'roll'); for any other class *)
(* both are unchanged; no other stored field changes.                       *)
C13_LevelUpFrame ==
    [][ConfirmLevelUp =>
          LET conMod == getAbilityModifier(character.constitution)
              inc == IF character.class # "Bard" THEN 0
                     ELSE IF levelUpHPChoice = "average" THEN 5 + conMod
                     ELSE levelUpHPRoll + conMod
          IN  character' = [character EXCEPT
                                !.level = @ + 1,
                                !.hit_points = @ + inc,
                                !.max_hit_points = @ + inc]]_vars

(* C14: level is >= 1 and never decreases along any sequence of operations: *)
(* level-up is the only operation that changes it, each time by exactly +1. *)
C14_LevelMonotonic ==
    /\ [](character.level >= 1)
    /\ [][\/ character'.level = character.level
          \/ ConfirmLevelUp /\ character'.level = character.level + 1]_vars

C14_Witness ==
    /\ lastOp = "levelUp"
    /\ before.level = 1
    /\ character.level = 2
    /\ character.hit_dice_remaining = 0
    /\ character.heroic_inspiration = "true"
    /\ character.death_saves_failure[1]

(* C15: no sheet mutation changes the character id: every snapshot passed   *)
(* to save carries the id of the loaded character, so each save upserts the *)
(* same record.                                                             *)
C15_IdImmutable ==
    /\ character.id = before.id
    /\ stored.id = before.id
    /\ \A i \in 1 .. Len(inflight) : inflight[i].id = before.id

C15_Witness ==
    /\ lastOp = "removeItem"
    /\ stored = character
    /\ stored.id = "uuid-1"
    /\ Len(stored.equipment) = 7
    /\ stored.used_abilities = << "relentless_endurance" >>
    /\ stored.currency.gold = 0
    /\ stored.level = 2

(* C16: updateCurrency on one of platinum/gold/silver/copper stores         *)
(* max(0, input) for that field (0 for non-numeric input) and leaves the    *)
(* other three at their previous values, absent read as 0; no currency      *)
(* field is ever negative after any sequence of currency updates.           *)
C16_UpdateCurrency ==
    /\ [](\A f \in CurrencyFields : Coalesce(character.currency[f], 0) >= 0)
    /\ [][\A field \in CurrencyFields, text \in CurrencyInputs :
            UpdateCurrency(field, text) =>
                \A f \in CurrencyFields :
                    character'.currency[f] =
                        IF f = field
                        THEN (IF text.numeric /\ text.value > 0 THEN text.value ELSE 0)
                        ELSE Coalesce(character.currency[f], 0)]_vars

C16_Witness ==
    /\ lastOp = "updateCurrency"
    /\ before.currency = [platinum |-> 7, gold |-> 15, silver |-> 7, copper |-> 0]
    /\ character.currency = [platinum |-> 7, gold |-> 15, silver |-> 0, copper |-> 0]

(* C17: build saves a character record only when the Basic, Class,          *)
(* Background, Species and Abilities validations all pass at the moment of  *)
(* build, however Review was reached; if any fails nothing is saved and the *)
(* builder moves to the first failing stage.                                *)
C17_BuildValidated ==
    LET allPass == /\ validateBasic(before)
                   /\ validateClassTab(before)
                   /\ validateBackgroundTab(before)
                   /\ validateSpeciesTab(before)
                   /\ validateAbilities(before)
    IN  /\ ~form.open =>
              /\ lastOp = "build"
              /\ allPass
              /\ stored.class = before.selectedClass
              /\ stored.race = before.selectedSpecies
        /\ lastOp = "build" /\ allPass => ~form.open
        /\ lastOp = "build" /\ form.open =>
              form.creationTab =
                  CASE ~validateBasic(before) -> "basic"
                    [] validateBasic(before) /\ ~validateClassTab(before) -> "class"
                    [] validateBasic(before) /\ validateClassTab(before)
                         /\ ~validateBackgroundTab(before) -> "background"
                    [] validateBasic(before) /\ validateClassTab(before)
                         /\ validateBackgroundTab(before)
                         /\ ~validateSpeciesTab(before) -> "species"
                    [] OTHER -> "abilities"

C17_Witness ==
    /\ lastOp = "build"
    /\ ~form.open
    /\ before.creationTab = "review"
    /\ stored.race = "Halfling"
    /\ stored.class = "Fighter"
    /\ before.selectedHalflingSubrace = "Stout"

(* C18: the builder starts in Basic; goNext from stage S moves to the       *)
(* immediate successor of S only when S's validation passes and otherwise   *)
(* leaves the stage unchanged; goBack moves to the immediate predecessor    *)
(* without validating; no goNext or goBack moves the stage by more than one *)
(* step.  A move goNext defers to its timer counts as goNext's.             *)
C18_StageMachine ==
    LET stagePasses == CASE before.creationTab = "basic" -> validateBasic(before)
                         [] before.creationTab = "class" -> validateClassTab(before)
                         [] before.creationTab = "background" -> validateBackgroundTab(before)
                         [] before.creationTab = "species" -> validateSpeciesTab(before)
                         [] before.creationTab = "abilities" -> validateAbilities(before)
                         [] OTHER -> FALSE
        from == TabIndex(before.creationTab)
        to == TabIndex(form.creationTab)
    IN  /\ lastOp = "open" => form.creationTab = "basic"
        /\ lastOp = "goNext" =>
              IF ~stagePasses THEN to = from
              ELSE \/ to = from + 1
                   \/ to = from /\ form.tabTimers = before.tabTimers + 1
        /\ lastOp = "timer" => to - from \in {0, 1}
        /\ lastOp = "goBack" => to = from - 1

(* C19: under the Standard Array method an assignment of {15,14,13,12,10,8} *)
(* in which some value is unused or some value is given to two abilities    *)
(* fails Abilities-stage validation; it passes only for a one-to-one        *)
(* assignment.                                                              *)
C19_StandardBijection ==
    LET oneToOne(f) ==
            \A i \in 1 .. 6 :
                Cardinality({ k \in AbilityNames :
                                f.standardAssigned[k] = STANDARD_ARRAY[i] }) = 1
    IN  /\ (form.open /\ form.abilityMethod = "standard") =>
              (validateAbilities(form) <=> oneToOne(form))
        /\ (lastOp = "goNext" /\ before.creationTab = "abilities"
                              /\ before.abilityMethod = "standard") =>
              (form.creationTab = "review" <=> oneToOne(before))

C19_Witness ==
    /\ lastOp = "goNext"
    /\ form.creationTab = "review"
    /\ form.abilityMethod = "standard"
    /\ form.standardAssigned =
          [ strength |-> 14, dexterity |-> 15, constitution |-> 13,
            intelligence |-> 12, wisdom |-> 10, charisma |-> 8 ]

(* C20: under the Rolled method Abilities-stage validation passes only if   *)
(* the multiset of the six assigned values equals the multiset of the six   *)
(* rolled pool values: no ability unassigned, no pool value used more often *)
(* than it was rolled.                                                      *)
C20_RolledMultiset ==
    LET sameMultiset(f) ==
            /\ Len(f.rolledPool) = 6
            /\ \A v \in 0 .. 18 :
                  Cardinality({ k \in AbilityNames : f.abilities[k] = v })
                    = Cardinality({ i \in 1 .. 6 : f.rolledPool[i] = v })
    IN  /\ (form.open /\ form.abilityMethod = "rolled") =>
              (validateAbilities(form) => sameMultiset(form))
        /\ (lastOp = "goNext" /\ before.creationTab = "abilities"
                              /\ before.abilityMethod = "rolled") =>
              (form.creationTab = "review" => sameMultiset(before))

C20_Witness ==
    /\ lastOp = "goNext"
    /\ form.creationTab = "review"
    /\ form.abilityMethod = "rolled"
    /\ form.rolledPool = << 15, 15, 13, 12, 10, 8 >>
    /\ form.abilities =
          [ strength |-> 13, dexterity |-> 15, constitution |-> 15,
            intelligence |-> 12, wisdom |-> 10, charisma |-> 8 ]

----------------------------------------------------------------------------
(* C21: the point-buy cost of a score s in 8..15 is 1 per point from 9 to   *)
(* 13 and 2 per point for 14 and 15 (0 for 8, 5 for 13, 9 for 15); the      *)
(* Abilities stage advances to Review exactly when the costs of the six    *)
(* scores sum to at most 27, and a build from Review is made exactly when  *)
(* they do, the other stages being valid; 15, 14, 13, 12, 10, 8 is accepted *)
PointCost(s) == IF s <= 13 THEN s - 8 ELSE 5 + 2 * (s - 13)

TotalCost(scores) ==
    PointCost(scores.strength) + PointCost(scores.dexterity)
      + PointCost(scores.constitution) + PointCost(scores.intelligence)
      + PointCost(scores.wisdom) + PointCost(scores.charisma)

OtherStagesValid(f) ==
    validateBasic(f) /\ validateClassTab(f) /\ validateBackgroundTab(f)
      /\ validateSpeciesTab(f)

C21_PointBuy ==
    /\ \A s \in 8 .. 15 : pointBuyCostFor(s) = PointCost(s)
    /\ pointBuyCostFor(8) = 0 /\ pointBuyCostFor(13) = 5 /\ pointBuyCostFor(15) = 9
    /\ (form.open /\ form.abilityMethod = "pointbuy") =>
          (validateAbilities(form) <=> TotalCost(form.pointBuyScores) <= 27)
    /\ (lastOp = "goNext" /\ before.creationTab = "abilities"
           /\ before.abilityMethod = "pointbuy") =>
          (form.creationTab = "review" <=> TotalCost(before.pointBuyScores) <= 27)
    /\ (lastOp = "build" /\ before.abilityMethod = "pointbuy"
           /\ OtherStagesValid(before)) =>
          (~form.open <=> TotalCost(before.pointBuyScores) <= 27)

C21_Witness ==
    /\ lastOp = "build"
    /\ ~form.open
    /\ before.abilityMethod = "pointbuy"
    /\ before.pointBuyScores =
          [ strength |-> 15, dexterity |-> 14, constitution |-> 13,
            intelligence |-> 12, wisdom |-> 10, charisma |-> 8 ]
    /\ TotalCost(before.pointBuyScores) = 27

----------------------------------------------------------------------------
(* C22: for a Half-Elf, Next leaves the Species stage only when two +1     *)
(* ability choices are made; and in every state of the builder the +1     *)
(* choices are at most two, differ from each other, and none is charisma, *)
(* the ability with the fixed +2                                          *)
C22_HalfElfChoices ==
    /\ (lastOp = "goNext" /\ before.creationTab = "species"
           /\ before.selectedSpecies = "Half-Elf" /\ form.creationTab = "abilities") =>
          /\ Len(before.halfElfExtraAbilities) = 2
          /\ \A i \in 1 .. 2 : before.halfElfExtraAbilities[i] \in AbilityNames
    /\ (form.open /\ form.selectedSpecies = "Half-Elf" /\ validateSpeciesTab(form)) =>
          Len(form.halfElfExtraAbilities) = 2
    /\ form.open =>
          /\ Len(form.halfElfExtraAbilities) <= 2
          /\ \A i, j \in 1 .. Len(form.halfElfExtraAbilities) :
                i # j => form.halfElfExtraAbilities[i] # form.halfElfExtraAbilities[j]
          /\ \A i \in 1 .. Len(form.halfElfExtraAbilities) :
                form.halfElfExtraAbilities[i] \notin {"charisma", ""}

C22_Witness ==
    /\ lastOp = "goNext"
    /\ before.creationTab = "species"
    /\ form.creationTab = "abilities"
    /\ form.selectedSpecies = "Half-Elf"
    /\ form.halfElfExtraAbilities = << "dexterity", "strength" >>

----------------------------------------------------------------------------
(* C23: every character built stores, for each ability, the base score of  *)
(* the active method (the standard-array assignment, the point-buy score,  *)
(* or the rolled or manual score) plus the bonus of its species for that   *)
(* ability, and hit_points = max_hit_points = 8 + floor((con - 10) / 2)    *)
(* for the stored constitution con, at level 1                             *)
BaseScore(f, k) ==
    CASE f.abilityMethod = "standard" -> f.standardAssigned[k]
      [] f.abilityMethod = "pointbuy" -> f.pointBuyScores[k]
      [] OTHER -> f.abilities[k]

NoBonus == [k \in AbilityNames |-> 0]

SpeciesBonus(f) ==
    CASE f.selectedSpecies = "Half-Elf" ->
           [k \in AbilityNames |->
              IF k = "charisma" THEN 2
              ELSE IF k \in Elements(f.halfElfExtraAbilities) THEN 1 ELSE 0]
      [] f.selectedSpecies = "Tiefling" ->
           [NoBonus EXCEPT !.charisma = 2, !.intelligence = 1]
      [] f.selectedSpecies = "Gnome" ->
           [NoBonus EXCEPT !.intelligence = 2, !.constitution = 1]
      [] f.selectedSpecies = "Half-Orc" ->
           [NoBonus EXCEPT !.strength = 2, !.constitution = 1]
      [] f.selectedSpecies = "Human" -> [k \in AbilityNames |-> 1]
      [] f.selectedSpecies = "Halfling" /\ f.selectedHalflingSubrace = "Lightfoot" ->
           [NoBonus EXCEPT !.dexterity = 2, !.charisma = 1]
      [] f.selectedSpecies = "Halfling" /\ f.selectedHalflingSubrace = "Stout" ->
           [NoBonus EXCEPT !.dexterity = 2, !.constitution = 1]
      [] OTHER -> NoBonus

IsFloorOfHalf(m, n) == 2 * m <= n /\ n <= 2 * m + 1

----------------------------------------------------------------------------
(* C29: whenever every stage validation passes, the final ability scores   *)
(* the Review tab presents are, ability by ability, the ability_scores a   *)
(* build would store; and the scores a build has stored are those Review   *)
(* presented when Create Character was pressed                            *)
C29_ReviewMatchesBuild ==
    /\ (form.open /\ firstFailing(form) = "none") =>
          \A k \in AbilityNames :
              getFinalAbilities(form)[k] = submittedCharacter(form).ability_scores[k]
    /\ (lastOp = "build" /\ ~form.open) =>
          \A k \in AbilityNames :
              stored.ability_scores[k] = getFinalAbilities(before)[k]

C29_Witness ==
    /\ lastOp = "build"
    /\ ~form.open
    /\ before.creationTab = "review"
    /\ before.selectedSpecies = "Gnome"
    /\ before.abilityMethod = "rolled"
    /\ getFinalAbilities(before).constitution = before.abilities.constitution + 1
    /\ stored.ability_scores.intelligence = before.abilities.intelligence + 2

----------------------------------------------------------------------------
(* C30: a character built with a species other than Half-Elf has only the  *)
(* skill proficiencies its species, background and class grant, none from  *)
(* Skill Versatility choices made while Half-Elf was selected             *)
GrantedSkills(f) ==
    (IF f.selectedSpecies = "Half-Orc" THEN {"Intimidation"} ELSE { })
      \cup (IF f.selectedBackground = "Criminal" THEN {"Deception", "Stealth"} ELSE { })
      \cup (IF f.selectedClass = "Bard" THEN Elements(f.bardSkills) ELSE { })

C30_NoHalfElfSkillLeak ==
    (lastOp = "build" /\ ~form.open /\ stored.race # "Half-Elf") =>
        stored.skill_proficiencies \subseteq GrantedSkills(before)

----------------------------------------------------------------------------
(* C24: getAbilityModifier(s) is floor((s - 10) / 2) for every integer      *)
(* score s, rounded toward negative infinity below 10: 10 gives 0, 15      *)
(* gives 2, 8 and 9 give -1, 20 gives 5                                    *)
C24_AbilityModifier ==
    /\ lastOp = "getAbilityModifier" =>
          /\ IsFloorOfHalf(derived.modifier, derived.score - 10)
          /\ derived.score = 10 => derived.modifier = 0
          /\ derived.score = 15 => derived.modifier = 2
          /\ derived.score \in {8, 9} => derived.modifier = -1
          /\ derived.score = 20 => derived.modifier = 5
          /\ derived.score < 10 => derived.modifier < 0

C24_Witness ==
    /\ lastOp = "getAbilityModifier"
    /\ derived.score = 9
    /\ derived.modifier = -1

----------------------------------------------------------------------------
(* C25: getProficiencyBonus(L) is floor((L - 1) / 4) + 2 for every level   *)
(* L >= 1, never smaller than at a lower level, 2 at levels 1 to 4, 3 at   *)
(* 5 to 8, and 6 at 17 to 20                                              *)
IsFloorOfQuarter(m, n) == 4 * m <= n /\ n <= 4 * m + 3

C25_ProficiencyBonus ==
    /\ lastOp = "getProficiencyBonus" =>
          /\ IsFloorOfQuarter(derived.proficiencyBonus - 2, derived.level - 1)
          /\ derived.level \in 1 .. 4 => derived.proficiencyBonus = 2
          /\ derived.level \in 5 .. 8 => derived.proficiencyBonus = 3
          /\ derived.level \in 17 .. 20 => derived.proficiencyBonus = 6
          /\ \A lower \in LevelInputs :
                lower <= derived.level =>
                    getProficiencyBonus(lower) <= derived.proficiencyBonus

C25_Witness ==
    /\ lastOp = "getProficiencyBonus"
    /\ derived.level = 17
    /\ derived.proficiencyBonus = 6

----------------------------------------------------------------------------
(* C26: a failed fetch leaves every cache entry as it was: the entries of  *)
(* other URLs keep their values and the failed URL is not added, so a      *)
(* later call for an uncached URL sends a new request; and a URL once      *)
(* cached stays cached and is answered from the cache without a request   *)
C26_FailedFetchKeepsCache ==
    /\ lastOp = "rejected" =>
          /\ srdApi.cache = before.cache
          /\ srdApi.returned = Absent
    /\ (lastOp = "fetchJson" /\ before.cache[srdApi.url] = Absent) =>
          /\ srdApi.pending = Append(before.pending, srdApi.url)
          /\ srdApi.cache = before.cache
    /\ (lastOp = "fetchJson" /\ before.cache[srdApi.url] # Absent) =>
          /\ srdApi.returned = before.cache[srdApi.url]
          /\ srdApi.pending = before.pending
          /\ srdApi.cache = before.cache
    /\ lastOp \in {"fetchJson", "resolved", "rejected"} =>
          \A u \in Urls : before.cache[u] # Absent => srdApi.cache[u] # Absent

C26_Witness ==
    /\ lastOp = "rejected"
    /\ srdApi.url = "/api/monsters"
    /\ before.cache["/api/spells"] = "body-1"
    /\ srdApi.cache["/api/spells"] = "body-1"
    /\ srdApi.cache["/api/monsters"] = Absent

----------------------------------------------------------------------------
(* C27: once editing has stopped and both debounce timers have run, the    *)
(* persisted notes hold, for every note, the last content typed into it,   *)
(* also when another note was selected before the 500 ms timer ran        *)
C27_EditsPersisted ==
    (~notesPage.editTimer.set /\ ~notesPage.persistTimer.set) =>
        \A n \in NoteIds : notesPage.localStorage[n] = notesPage.typed[n]

----------------------------------------------------------------------------
(* C28: a roll whose 1500 ms timer has run is in the roll history until it *)
(* is removed or the history is cleared, also when another roll was       *)
(* started before its timer ran                                           *)
C28_RollsKept ==
    \A id \in diceRoller.added \ diceRoller.removed :
        id \in Elements(diceRoller.results)

====
